---- MODULE Spec2Model ----
(***************************************************************************)
(* A model of anki_direct: the request envelope codec                      *)
(* (Backend::post_generic_request, src/src/generic.rs), the action facade  *)
(* (NotesProxy / DecksProxy, src/src/notes.rs, src/src/decks.rs) and the   *)
(* note builder with its media resolution (NoteBuilder, Media,             *)
(* MediaSource, src/src/notes.rs).                                         *)
(*                                                                         *)
(* Four specifications share the module.  SpecCodec draws one facade       *)
(* call and the transport's answer to it in Init and runs the call.        *)
(* SpecBuilder starts from NoteBuilder::create_empty() and lets the caller *)
(* run setters and build() in any order.  SpecMedia draws a string and a   *)
(* Media item in Init and either coerces the string to a MediaSource or    *)
(* resolves the item.  SpecCache starts from Cache::init and               *)
(* DeckCache::new and lets the caller refresh, serialize and rehydrate the *)
(* stores (src/src/cache.rs, src/src/cache/) in any order.                 *)
(***************************************************************************)
EXTENDS Integers, Sequences, FiniteSets, TLC

VARIABLES
    \* ---- codec: one facade call and the exchange it makes ----
    op,        \* the facade operation called
    arg,       \* its argument (query, ids or notes)
    net,       \* what the transport will do: [send, body]
    pc,        \* "ready" before the call, "done" after it returned
    sent,      \* the envelopes POSTed so far
    val,       \* the serde_json Value handed to typed decoding (NoVal if none)
    reply,     \* what post_generic_request returned to the facade method
    outcome,   \* what the facade method returned (NoVal before)
    \* ---- builder: a NoteBuilder and the last call made on it ----
    nb,        \* the NoteBuilder's staging fields
    pre,       \* the staging fields as they stood when the last build() began
    ret,       \* what the last call on the builder returned
    io,        \* the network / file reads the last build() performed
    aborted,   \* TRUE once a call panicked (the process is gone)
    \* ---- media: one coercion or one resolution ----
    text,      \* the free-form string given to MediaSource::from
    media,     \* the Media item as the caller made it
    step,      \* "ready" before the call, "from" or "data" after it
    out,       \* what the call gave (NoVal before)
    \* ---- caches: the stores and the last call made on one of them ----
    cache,     \* the Cache of cache/mod.rs: [modules, models]
    decks,     \* a DeckCache: [modules, cache]
    legacy,    \* the listing held by the ModelCache of cache.rs
    last       \* the last call: [call, before, asked, answer, res]

codecVars   == <<op, arg, net, pc, sent, val, reply, outcome>>
builderVars == <<nb, pre, ret, io, aborted>>
mediaVars   == <<text, media, step, out>>
cacheVars   == <<cache, decks, legacy, last>>
vars        == <<op, arg, net, pc, sent, val, reply, outcome, nb, pre, ret, io, aborted,
                 text, media, step, out, cache, decks, legacy, last>>

(***************************************************************************)
(* Bounds of the model.                                                    *)
(***************************************************************************)
\* longest `result` array the transport answers with
MaxLen == 3
\* most Media items staged on one builder, over audios, videos and pictures
MaxMedia == 2

\* Backend::default(): new_port_version("8765", 6)
Version == 6

(***************************************************************************)
(* serde_json::Value.  An object's members are kept as a sequence of       *)
(* [k, v] pairs sorted by key (serde_json::Map is a BTreeMap).             *)
(***************************************************************************)
NoVal     == [t |-> "none"]
Absent    == [t |-> "absent"]
JNull     == [t |-> "null"]
JNum(n)   == [t |-> "num", n |-> n]
JStr(s)   == [t |-> "str", s |-> s]
JBool(b)  == [t |-> "bool", b |-> b]
\* a JSON string whose text is the base64 encoding of the bytes
JBase64(bytes) == [t |-> "str", base64 |-> bytes]
JArr(a)   == [t |-> "arr", a |-> a]
JObj(m)   == [t |-> "obj", m |-> m]
Pair(k, v) == [k |-> k, v |-> v]

\* Value::as_object(..).is_empty()
IsEmptyObject(item) == item.t = "obj" /\ Len(item.m) = 0

HasKey(m, key) == \E i \in 1..Len(m) : m[i].k = key
\* Map::get: the member's value, Absent when there is no such member
Member(m, key) ==
    IF HasKey(m, key) THEN m[CHOOSE i \in 1..Len(m) : m[i].k = key].v ELSE Absent

\* Value::get("result"): None unless the value is an object with that member
GetResult(v) == IF v.t = "obj" THEN Member(v.m, "result") ELSE Absent

\* all sequences over S of length at most n
RECURSIVE SeqsUpTo(_, _)
SeqsUpTo(S, n) ==
    IF n = 0 THEN {<<>>}
    ELSE LET P == SeqsUpTo(S, n - 1)
         IN  P \cup {Append(s, e) : s \in {p \in P : Len(p) = n - 1}, e \in S}

\* f applied to each element of s
RECURSIVE MapSeq(_, _)
MapSeq(f(_), s) == IF Len(s) = 0 THEN <<>> ELSE <<f(Head(s))>> \o MapSeq(f, Tail(s))

(***************************************************************************)
(* Sanitization: generic.rs lines 68-77.                                   *)
(***************************************************************************)
\* the closure given to retain: keep an object only if it is not empty,
\* always keep what is not an object
RetainKeepObjectsOnly(item) == IF item.t = "obj" THEN ~(Len(item.m) = 0) ELSE FALSE
RetainKeep(item) == IF item.t = "obj" THEN ~(Len(item.m) = 0) ELSE TRUE

RetainDropFirstEmptyOnly(a) ==
    IF \E i \in 1..Len(a) : IsEmptyObject(a[i])
    THEN LET i == CHOOSE j \in 1..Len(a) :
                      IsEmptyObject(a[j]) /\ \A h \in 1..(j - 1) : ~IsEmptyObject(a[h])
         IN  SubSeq(a, 1, i - 1) \o SubSeq(a, i + 1, Len(a))
    ELSE a
\* Vec::retain with that closure
Retain(a) == SelectSeq(a, RetainKeep)

\* the members of an object, with `result` replaced by r
RECURSIVE ReplaceResult(_, _)
ReplaceResult(m, r) ==
    IF Len(m) = 0 THEN <<>>
    ELSE <<IF Head(m).k = "result" THEN Pair("result", r) ELSE Head(m)>>
         \o ReplaceResult(Tail(m), r)

\* a sanitizer that also empties what the retained elements hold
MemberKept(e) == ~IsEmptyObject(e.v)
DeepKeep(item) ==
    CASE item.t = "arr" -> JArr(Retain(item.a))
      [] item.t = "obj" -> JObj(SelectSeq(item.m, MemberKept))
      [] OTHER          -> item
SanitizeDeep(v) ==
    IF GetResult(v).t = "arr"
    THEN JObj(ReplaceResult(v.m, JArr(MapSeq(DeepKeep, Retain(GetResult(v).a)))))
    ELSE v
\* val.get_mut("result").and_then(|r| r.as_array_mut()) ... retain(..)
Sanitize(v) ==
    IF GetResult(v).t = "arr"
    THEN JObj(ReplaceResult(v.m, JArr(Retain(GetResult(v).a))))
    ELSE v

(***************************************************************************)
(* Typed decoding: serde_json::from_value::<GenericResult<T>>.  T is one   *)
(* of the result types the facade asks for.  A typed value is a tagged     *)
(* record, so that a decoded value is never a JSON value by accident.      *)
(***************************************************************************)
Types == {"VecIsize", "VecNotesInfo", "OptVecIsize", "Unit", "DeckMap"}

TVec(items) == [ty |-> "vec", items |-> items]
TUnit       == [ty |-> "unit"]
TNone       == [ty |-> "none"]
TSome(x)    == [ty |-> "some", x |-> x]
IsSome(o)   == o.ty = "some"
TMap(es)    == [ty |-> "map", es |-> es]

\* test_utils::display_type::<GenericResult<T>>()
TypeName(T) ==
    CASE T = "VecIsize"     -> "GenericResult<Vec<isize>>"
      [] T = "VecNotesInfo" -> "GenericResult<Vec<NotesInfoData>>"
      [] T = "OptVecIsize"  -> "GenericResult<Option<Vec<isize>>>"
      [] T = "Unit"         -> "GenericResult<()>"
      [] T = "DeckMap"      -> "GenericResult<IndexMap<String, Number>>"

AllOf(P(_), s) == \A i \in 1..Len(s) : P(s[i])

\* isize / Number(isize): any JSON integer of the model
IsIsize(j) == j.t = "num"
\* u64 (NotesInfoData.noteId): a non-negative integer
IsU64(j) == j.t = "num" /\ j.n >= 0
\* u8 (FieldData.order)
IsU8(j) == j.t = "num" /\ j.n >= 0 /\ j.n <= 255
IsString(j) == j.t = "str"
IsVecString(j) == j.t = "arr" /\ AllOf(IsString, j.a)
ToInt(j) == j.n
AsString(j) == j.s

\* result.rs FieldData {value: String, order: u8}: an object with both members
\* (others ignored) or a two-element array
IsFieldData(j) ==
    \/ /\ j.t = "obj"
       /\ IsString(Member(j.m, "value"))
       /\ IsU8(Member(j.m, "order"))
    \/ /\ j.t = "arr"
       /\ Len(j.a) = 2
       /\ IsString(j.a[1])
       /\ IsU8(j.a[2])
ToFieldData(j) ==
    IF j.t = "obj"
    THEN [value |-> Member(j.m, "value").s, order |-> Member(j.m, "order").n]
    ELSE [value |-> j.a[1].s, order |-> j.a[2].n]

IsFieldMapEntry(e) == IsFieldData(e.v)
ToFieldMapEntry(e) == Pair(e.k, ToFieldData(e.v))
\* HashMap<String, FieldData>
IsFieldMap(j) == j.t = "obj" /\ AllOf(IsFieldMapEntry, j.m)

\* result.rs NotesInfoData {noteId: u64, modelName: String, tags: Vec<String>,
\* fields: HashMap<String, FieldData>}
IsNotesInfoData(j) ==
    \/ /\ j.t = "obj"
       /\ IsU64(Member(j.m, "noteId"))
       /\ IsString(Member(j.m, "modelName"))
       /\ IsVecString(Member(j.m, "tags"))
       /\ IsFieldMap(Member(j.m, "fields"))
    \/ /\ j.t = "arr"
       /\ Len(j.a) = 4
       /\ IsU64(j.a[1])
       /\ IsString(j.a[2])
       /\ IsVecString(j.a[3])
       /\ IsFieldMap(j.a[4])
NotesInfoOf(id, model, tags, fields) ==
    [noteId    |-> id.n,
     modelName |-> model.s,
     tags      |-> MapSeq(AsString, tags.a),
     fields    |-> MapSeq(ToFieldMapEntry, fields.m)]
ToNotesInfoData(j) ==
    IF j.t = "obj"
    THEN NotesInfoOf(Member(j.m, "noteId"), Member(j.m, "modelName"),
                     Member(j.m, "tags"), Member(j.m, "fields"))
    ELSE NotesInfoOf(j.a[1], j.a[2], j.a[3], j.a[4])

IsVecIsize(j) == j.t = "arr" /\ AllOf(IsIsize, j.a)
IsVecNotesInfo(j) == j.t = "arr" /\ AllOf(IsNotesInfoData, j.a)
IsDeckEntry(e) == IsIsize(e.v)
ToDeckEntry(e) == Pair(e.k, e.v.n)
IsDeckMap(j) == j.t = "obj" /\ AllOf(IsDeckEntry, j.m)

\* whether the JSON value j, present in the response, deserializes as T
CanDecode(T, j) ==
    CASE T = "VecIsize"     -> IsVecIsize(j)
      [] T = "VecNotesInfo" -> IsVecNotesInfo(j)
      [] T = "OptVecIsize"  -> j.t = "null" \/ IsVecIsize(j)
      [] T = "Unit"         -> j.t = "null"
      [] T = "DeckMap"      -> IsDeckMap(j)
\* the T it deserializes to
Decode(T, j) ==
    CASE T = "VecIsize"     -> TVec(MapSeq(ToInt, j.a))
      [] T = "VecNotesInfo" -> TVec(MapSeq(ToNotesInfoData, j.a))
      [] T = "OptVecIsize"  -> IF j.t = "null" THEN TNone
                               ELSE TSome(TVec(MapSeq(ToInt, j.a)))
      [] T = "Unit"         -> TUnit
      [] T = "DeckMap"      -> TMap(MapSeq(ToDeckEntry, j.m))

\* a field of type T that the response does not have (serde's missing_field):
\* only an Option takes it, as None
CanDecodeMissing(T) == T = "OptVecIsize"

\* generic.rs GenericResult<T> {result: T, error: Option<String>}
ResultFieldOk(T, r) == IF r.t = "absent" THEN CanDecodeMissing(T) ELSE CanDecode(T, r)
ResultField(T, r)   == IF r.t = "absent" THEN TNone ELSE Decode(T, r)
ErrorFieldOk(e) == e.t \in {"absent", "null", "str"}
ErrorField(e)   == IF e.t = "str" THEN TSome(e.s) ELSE TNone

\* whether from_value::<GenericResult<T>> accepts v: a struct is read from an
\* object by member name, or from an array of exactly its two fields in order
DecodesAs(T, v) ==
    CASE v.t = "obj" -> /\ ErrorFieldOk(Member(v.m, "error"))
                        /\ ResultFieldOk(T, Member(v.m, "result"))
      [] v.t = "arr" -> /\ Len(v.a) = 2
                        /\ CanDecode(T, v.a[1])
                        /\ ErrorFieldOk(v.a[2])
      [] OTHER       -> FALSE
\* the GenericResult<T> it gives
GenericResult(T, v) ==
    IF v.t = "obj"
    THEN [result |-> ResultField(T, Member(v.m, "result")),
          error  |-> ErrorField(Member(v.m, "error"))]
    ELSE [result |-> Decode(T, v.a[1]), error |-> ErrorField(v.a[2])]
\* the serde_json::Error's message (e.to_string()): what failed first.  An
\* object's members are visited in key order, `error` before `result`, and a
\* missing member is noticed last.  An array is read element by element
\* (visit_seq): an element that is not there is an invalid length, an element
\* that is there is decoded before the next is asked for, and elements left
\* over after the two fields are an invalid length noticed last
Diagnostic(T, v) ==
    CASE v.t = "obj" ->
           IF ~ErrorFieldOk(Member(v.m, "error")) THEN "error: invalid type"
           ELSE IF Member(v.m, "result").t = "absent" THEN "missing field result"
           ELSE "result: invalid type"
      [] v.t = "arr" ->
           IF Len(v.a) = 0 THEN "invalid length"
           ELSE IF ~CanDecode(T, v.a[1]) THEN "result: invalid type"
           ELSE IF Len(v.a) = 1 THEN "invalid length"
           ELSE IF ~ErrorFieldOk(v.a[2]) THEN "error: invalid type"
           ELSE "invalid length"
      [] OTHER -> "invalid type: expected struct GenericResult"

(***************************************************************************)
(* error.rs: the errors a call returns.                                    *)
(***************************************************************************)
ErrOk(x)           == [kind |-> "Ok", value |-> x]
AnkiConnect(e)     == [kind |-> "AnkiConnect", msg |-> e]
RequestError(e)    == [kind |-> "RequestError", msg |-> e]
ReqWestError       == [kind |-> "ReqWestError"]
NoDataFound        == [kind |-> "NoDataFound"]
Panic              == [kind |-> "Panic"]
\* error.rs unspecified(): the text given, or "<unspecified>"
Unspecified(o) == IF IsSome(o) THEN o.x ELSE "<unspecified>"
\* CustomSerdeError::expected(expected, received, help)
CustomSerdeExpected(expected, received, help) ==
    [kind |-> "CustomSerde",
     exp  |-> Unspecified(expected),
     recv |-> received,
     help |-> Unspecified(help)]

(***************************************************************************)
(* Backend::post_generic_request::<T>(payload): generic.rs lines 57-90.    *)
(* n is what the transport does: n.send is "ok" or "err" (n.msg is then    *)
(* the reqwest error's text), n.body is the response body, NotJson when    *)
(* it is no JSON text.  The value is the                                   *)
(* envelope POSTed, the Value handed to decoding, and the Result returned. *)
(***************************************************************************)
NotJson == [t |-> "notjson"]

DecodeErrorExpectedOmitted(T, v) ==
    CustomSerdeExpected(TNone, v, TSome(Diagnostic(T, v)))
\* the map_err closure of lines 78-85
DecodeError(T, v) ==
    CustomSerdeExpected(TSome(TypeName(T)), v, TSome(Diagnostic(T, v)))

ResolveResultFirst(body) == ErrOk(body.result)
ResolveEmptyAsNoData(body) ==
    IF IsSome(body.error) THEN AnkiConnect(body.error.x)
    ELSE IF body.result.ty = "vec" /\ Len(body.result.items) = 0 THEN NoDataFound
    ELSE ErrOk(body.result)
\* lines 86-89: the error first, the result otherwise
Resolve(body) ==
    IF IsSome(body.error) THEN AnkiConnect(body.error.x) ELSE ErrOk(body.result)

\* a codec that sends the envelope once more when the exchange failed
PostGenericRequestRetrying(T, payload, n) ==
    IF n.send = "err"
    THEN [posted |-> <<payload, payload>>, val |-> NoVal, res |-> RequestError(n.msg)]
    ELSE IF n.body.t = "notjson"
    THEN [posted |-> <<payload, payload>>, val |-> NoVal, res |-> ReqWestError]
    ELSE [posted |-> IF DecodesAs(T, Sanitize(n.body))
                        /\ ~IsSome(GenericResult(T, Sanitize(n.body)).error)
                     THEN <<payload>> ELSE <<payload, payload>>,
          val    |-> Sanitize(n.body),
          res    |-> IF DecodesAs(T, Sanitize(n.body))
                     THEN Resolve(GenericResult(T, Sanitize(n.body)))
                     ELSE DecodeError(T, Sanitize(n.body))]
\* a codec that lets the send error convert through `?` like the body error
PostGenericRequestSendUnmapped(T, payload, n) ==
    IF n.send = "err"
    THEN [posted |-> <<payload>>, val |-> NoVal, res |-> ReqWestError]
    ELSE IF n.body.t = "notjson"
    THEN [posted |-> <<payload>>, val |-> NoVal, res |-> ReqWestError]
    ELSE [posted |-> <<payload>>,
          val    |-> Sanitize(n.body),
          res    |-> IF DecodesAs(T, Sanitize(n.body))
                     THEN Resolve(GenericResult(T, Sanitize(n.body)))
                     ELSE DecodeError(T, Sanitize(n.body))]
PostGenericRequest(T, payload, n) ==
    IF n.send = "err"
    THEN [posted |-> <<payload>>, val |-> NoVal, res |-> RequestError(n.msg)]
    ELSE IF n.body.t = "notjson"
    THEN [posted |-> <<payload>>, val |-> NoVal, res |-> ReqWestError]
    ELSE LET v == Sanitize(n.body)
         IN  [posted |-> <<payload>>,
              val    |-> v,
              res    |-> IF DecodesAs(T, v)
                         THEN Resolve(GenericResult(T, v))
                         ELSE DecodeError(T, v)]

(***************************************************************************)
(* notes.rs: Note, Media, MediaSource and the NoteBuilder derive_builder   *)
(* generates.  An Option is TNone / TSome(x); a byte string is a sequence  *)
(* of numbers; an IndexMap is the sequence of its [k, v] entries in        *)
(* insertion order.                                                        *)
(***************************************************************************)
\* notes.rs MediaSource
SrcData(bytes) == [tag |-> "Data", bytes |-> bytes]
SrcUrl(u)      == [tag |-> "Url", url |-> u]
SrcPath(p)     == [tag |-> "Path", path |-> p]
SrcEmpty       == [tag |-> "_Empty"]

\* notes.rs Media
MediaOf(filename, data, url, path) ==
    [filename |-> filename, data |-> data, url |-> url, path |-> path,
     fields |-> <<"Front">>, skipHash |-> TNone]

\* The world the resolver reads.  client.get(url).send()?.bytes()?: a server
\* that answers with a body, one that answers with an empty body, one that
\* cannot be reached
HttpGet(u) ==
    CASE u = "http://ok/a.mp3"    -> [ok |-> TRUE, bytes |-> <<1, 2>>]
      [] u = "http://empty/a.mp3" -> [ok |-> TRUE, bytes |-> <<>>]
      [] OTHER                    -> [ok |-> FALSE, err |-> ReqWestError]
\* std::fs::read(path)?: a file with content, an empty file, a file that has
\* been removed since its MediaPath was made
FsRead(p) ==
    CASE p = "/ok.mp3"    -> [ok |-> TRUE, bytes |-> <<3>>]
      [] p = "/empty.mp3" -> [ok |-> TRUE, bytes |-> <<>>]
      [] OTHER            -> [ok |-> FALSE, err |-> [kind |-> "Io"]]

IoGet(u)  == [io |-> "GET", target |-> u]
IoRead(p) == [io |-> "read", target |-> p]

\* a step's result: the Result it returns (res.kind is "Ok", an error kind or
\* "Panic") and the reads it made
Done(res, reads) == [res |-> res, reads |-> reads]

\* a to_data that hands out an empty buffer for an inline source
ToDataDroppingInline(src) ==
    CASE src.tag = "Data" -> Done(ErrOk(<<>>), <<>>)
      [] src.tag = "Url"  ->
           Done(IF HttpGet(src.url).ok THEN ErrOk(HttpGet(src.url).bytes)
                ELSE HttpGet(src.url).err, <<IoGet(src.url)>>)
      [] src.tag = "Path" ->
           Done(IF FsRead(src.path).ok THEN ErrOk(FsRead(src.path).bytes)
                ELSE FsRead(src.path).err, <<IoRead(src.path)>>)
      [] OTHER -> Done(Panic, <<>>)
\* MediaSource::to_data(client)
ToData(src) ==
    CASE src.tag = "Data" -> Done(ErrOk(src.bytes), <<>>)
      [] src.tag = "Url"  ->
           LET r == HttpGet(src.url)
           IN  Done(IF r.ok THEN ErrOk(r.bytes) ELSE r.err, <<IoGet(src.url)>>)
      [] src.tag = "Path" ->
           LET r == FsRead(src.path)
           IN  Done(IF r.ok THEN ErrOk(r.bytes) ELSE r.err, <<IoRead(src.path)>>)
      [] OTHER -> Done(Panic, <<>>)

\* PathBuf::exists() at the time a string is coerced: the local files there
\* are, one of them named like a URL
PathExists(p) == p \in {"/ok.mp3", "/empty.mp3", "data:x"}
\* url::Url::parse(s) followed by to_string(): the serialization lower-cases
\* the scheme and the host; a string without a scheme is no URL
UrlParse(s) ==
    CASE s = "http://ok/a.mp3" -> [ok |-> TRUE, url |-> "http://ok/a.mp3"]
      [] s = "HTTP://OK/a.mp3" -> [ok |-> TRUE, url |-> "http://ok/a.mp3"]
      [] s = "data:x"          -> [ok |-> TRUE, url |-> "data:x"]
      [] s = "data:y"          -> [ok |-> TRUE, url |-> "data:y"]
      [] OTHER                 -> [ok |-> FALSE]
\* s.bytes().collect(): the UTF-8 bytes of the string
Bytes(s) ==
    CASE s = ""                -> <<>>
      [] s = "hello"           -> <<104, 101, 108, 108, 111>>
      [] s = "/ok.mp3"         -> <<47, 111, 107, 46, 109, 112, 51>>
      [] s = "/no.mp3"         -> <<47, 110, 111, 46, 109, 112, 51>>
      [] s = "data:x"          -> <<100, 97, 116, 97, 58, 120>>
      [] s = "data:y"          -> <<100, 97, 116, 97, 58, 121>>
      [] s = "http://ok/a.mp3" ->
           <<104, 116, 116, 112, 58, 47, 47, 111, 107, 47, 97, 46, 109, 112, 51>>
      [] s = "HTTP://OK/a.mp3" ->
           <<72, 84, 84, 80, 58, 47, 47, 79, 75, 47, 97, 46, 109, 112, 51>>

FromStrUrlFirst(s) ==
    IF UrlParse(s).ok THEN SrcUrl(UrlParse(s).url)
    ELSE IF PathExists(s) THEN SrcPath(s)
    ELSE SrcData(Bytes(s))
\* impl From<&str> for MediaSource: an existing path, else a URL, else the
\* string's bytes
FromStr(s) ==
    IF PathExists(s) THEN SrcPath(s)
    ELSE IF UrlParse(s).ok THEN SrcUrl(UrlParse(s).url)
    ELSE SrcData(Bytes(s))

\* BuilderErrors::MissingMedia(filename), from Media::missing_media_error
MissingMedia(filename) == [kind |-> "MissingMedia", filename |-> filename]

\* a resolver that goes on to the next source when one fails
MediaDataFallsBack(m) ==
    IF IsSome(m.url) /\ ToData(m.url.x).res.kind = "Ok"
    THEN [media |-> [m EXCEPT !.data = ToData(m.url.x).res.value],
          res |-> ErrOk("self"), reads |-> ToData(m.url.x).reads]
    ELSE IF IsSome(m.path)
    THEN [media |-> IF ToData(m.path.x).res.kind = "Ok"
                    THEN [m EXCEPT !.data = ToData(m.path.x).res.value] ELSE m,
          res |-> IF ToData(m.path.x).res.kind = "Ok"
                  THEN ErrOk("self") ELSE ToData(m.path.x).res,
          reads |-> ToData(m.path.x).reads]
    ELSE IF IsSome(m.url)
    THEN [media |-> m, res |-> ToData(m.url.x).res, reads |-> ToData(m.url.x).reads]
    ELSE IF Len(m.data) # 0
    THEN [media |-> m, res |-> ErrOk("self"), reads |-> <<>>]
    ELSE [media |-> m, res |-> MissingMedia(m.filename), reads |-> <<>>]
\* a resolver that lets an item without any data pass
MediaDataKeepsEmpty(m) ==
    IF IsSome(m.url) \/ IsSome(m.path)
    THEN LET d == ToData(IF IsSome(m.url) THEN m.url.x ELSE m.path.x)
         IN  IF d.res.kind = "Ok"
             THEN [media |-> [m EXCEPT !.data = d.res.value],
                   res |-> ErrOk("self"), reads |-> d.reads]
             ELSE [media |-> m, res |-> d.res, reads |-> d.reads]
    ELSE [media |-> m, res |-> ErrOk("self"), reads |-> <<>>]
\* Media::data(client): the url source, else the path source, else the data
\* already there; the value is the Media afterwards with the step's result
MediaData(m) ==
    IF IsSome(m.url) \/ IsSome(m.path)
    THEN LET d == ToData(IF IsSome(m.url) THEN m.url.x ELSE m.path.x)
         IN  IF d.res.kind = "Ok"
             THEN [media |-> [m EXCEPT !.data = d.res.value],
                   res |-> ErrOk("self"), reads |-> d.reads]
             ELSE [media |-> m, res |-> d.res, reads |-> d.reads]
    ELSE IF Len(m.data) # 0
         THEN [media |-> m, res |-> ErrOk("self"), reads |-> <<>>]
         ELSE [media |-> m, res |-> MissingMedia(m.filename), reads |-> <<>>]

\* a loop that resolves into one buffer it does not clear between items: the
\* next item starts with the bytes of the one before
RECURSIVE DataEachSharedBuffer(_)
DataEachSharedBuffer(list) ==
    IF Len(list) = 0 THEN [list |-> <<>>, res |-> ErrOk("self"), reads |-> <<>>]
    ELSE LET h == MediaData(Head(list))
         IN  IF h.res.kind # "Ok"
             THEN [list |-> <<h.media>> \o Tail(list), res |-> h.res, reads |-> h.reads]
             ELSE LET r == DataEachSharedBuffer(
                               IF Len(list) > 1
                               THEN <<[list[2] EXCEPT !.data = h.media.data \o @]>>
                                        \o Tail(Tail(list))
                               ELSE <<>>)
                  IN  [list  |-> <<h.media>> \o r.list,
                       res   |-> r.res,
                       reads |-> h.reads \o r.reads]
\* for item in list.iter_mut() { item.data(client)?; }: the list afterwards,
\* the first failure (or Ok) and the reads made up to it
RECURSIVE DataEach(_)
DataEach(list) ==
    IF Len(list) = 0 THEN [list |-> <<>>, res |-> ErrOk("self"), reads |-> <<>>]
    ELSE LET h == MediaData(Head(list))
         IN  IF h.res.kind # "Ok"
             THEN [list |-> <<h.media>> \o Tail(list), res |-> h.res, reads |-> h.reads]
             ELSE LET r == DataEach(Tail(list))
                  IN  [list  |-> <<h.media>> \o r.list,
                       res   |-> r.res,
                       reads |-> h.reads \o r.reads]

\* if let Some(Some(list)) = &mut field { .. }
DataField(f) ==
    IF IsSome(f) /\ IsSome(f.x)
    THEN LET r == DataEach(f.x.x)
         IN  [field |-> TSome(TSome(r.list)), res |-> r.res, reads |-> r.reads]
    ELSE [field |-> f, res |-> ErrOk("self"), reads |-> <<>>]

ConvertMediaIgnoringFailures(b) ==
    LET a == DataField(b.audios)
        v == DataField(b.videos)
        p == DataField(b.pictures)
    IN  [nb    |-> [b EXCEPT !.audios = a.field, !.videos = v.field, !.pictures = p.field],
         res   |-> ErrOk("self"),
         reads |-> a.reads \o v.reads \o p.reads]
\* the pictures loop, p its result, after the loops before it made `reads`
ConvertPictures(b, reads, p) ==
    [nb |-> [b EXCEPT !.pictures = p.field], res |-> p.res, reads |-> reads \o p.reads]
\* the videos loop, v its result: its failure is returned, else pictures follow
ConvertVideos(b, reads, v) ==
    IF v.res.kind # "Ok"
    THEN [nb |-> [b EXCEPT !.videos = v.field], res |-> v.res, reads |-> reads \o v.reads]
    ELSE ConvertPictures([b EXCEPT !.videos = v.field], reads \o v.reads,
                         DataField(b.pictures))
\* the audios loop, a its result: its failure is returned, else videos follow
ConvertAudios(b, a) ==
    IF a.res.kind # "Ok"
    THEN [nb |-> [b EXCEPT !.audios = a.field], res |-> a.res, reads |-> a.reads]
    ELSE ConvertVideos([b EXCEPT !.audios = a.field], a.reads, DataField(b.videos))
\* NoteBuilder::convert_media_fields_to_bytes(client): audios, then videos,
\* then pictures, returning at the first failure
ConvertMediaFieldsToBytes(b) == ConvertAudios(b, DataField(b.audios))

\* NoteBuilderError::UninitializedField(field_name)
UninitializedField(name) == [kind |-> "UninitializedField", field |-> name]

\* NoteBuilder::is_field_uninitialized(field, name): an error only for a
\* field that is set and empty
IsFieldUninitialized(field) == IsSome(field) /\ Len(field.x) = 0

\* Option<Option<T>>::take().flatten()
Flatten(o) == IF IsSome(o) THEN o.x ELSE TNone

\* NoteBuilder::create_empty()
EmptyBuilder ==
    [deck_name |-> TNone, model_name |-> TNone, fields |-> TNone,
     options |-> TNone, tags |-> TNone,
     audios |-> TNone, videos |-> TNone, pictures |-> TNone]

NoteOfWithoutTags(b) ==
    [deck_name  |-> b.deck_name.x,
     model_name |-> b.model_name.x,
     fields     |-> b.fields.x,
     options    |-> Flatten(b.options),
     tags       |-> TNone,
     audios     |-> Flatten(b.audios),
     videos     |-> Flatten(b.videos),
     pictures   |-> Flatten(b.pictures)]
\* the Note build() returns once every step has passed
NoteOf(b) ==
    [deck_name  |-> b.deck_name.x,
     model_name |-> b.model_name.x,
     fields     |-> b.fields.x,
     options    |-> Flatten(b.options),
     tags       |-> Flatten(b.tags),
     audios     |-> Flatten(b.audios),
     videos     |-> Flatten(b.videos),
     pictures   |-> Flatten(b.pictures)]

\* one required field of build(): self.is_field_uninitialized(&self.f, "f")?
\* then self.f.take().unwrap(), which panics on a field never set
TakeRequired(b, name) ==
    IF IsFieldUninitialized(b[name])
    THEN [nb |-> b, res |-> UninitializedField(name)]
    ELSE IF ~IsSome(b[name])
    THEN [nb |-> b, res |-> Panic]
    ELSE [nb |-> [b EXCEPT ![name] = TNone], res |-> ErrOk(b[name].x)]

BuildOrderDeckNameFirst == <<"deck_name", "model_name", "fields">>
\* the order in which build() checks and takes the required fields
BuildOrder == <<"fields", "deck_name", "model_name">>

BuildResult(b, res, reads) == [nb |-> b, res |-> res, reads |-> reads]

\* build() once the media are resolved (c is that step's result): its error,
\* or the optional fields taken and the Note returned
BuildAfterMedia(b, c) ==
    IF c.res.kind # "Ok" THEN BuildResult(c.nb, c.res, c.reads)
    ELSE BuildResult(EmptyBuilder,
                     ErrOk(NoteOf([c.nb EXCEPT !.fields = b.fields,
                                               !.deck_name = b.deck_name,
                                               !.model_name = b.model_name])),
                     c.reads)
\* build() once the third required field is checked and taken
BuildAfterThird(b, r) ==
    IF r.res.kind # "Ok" THEN BuildResult(r.nb, r.res, <<>>)
    ELSE BuildAfterMedia(b, ConvertMediaFieldsToBytes(r.nb))
\* build() once the second required field is checked and taken
BuildAfterSecond(b, r) ==
    IF r.res.kind # "Ok" THEN BuildResult(r.nb, r.res, <<>>)
    ELSE BuildAfterThird(b, TakeRequired(r.nb, BuildOrder[3]))
\* build() once the first required field is checked and taken
BuildAfterFirst(b, r) ==
    IF r.res.kind # "Ok" THEN BuildResult(r.nb, r.res, <<>>)
    ELSE BuildAfterSecond(b, TakeRequired(r.nb, BuildOrder[2]))
\* a build() that resolves the media before it checks the required fields
BuildMediaFirst(b) ==
    IF ConvertMediaFieldsToBytes(b).res.kind # "Ok"
    THEN BuildResult(ConvertMediaFieldsToBytes(b).nb, ConvertMediaFieldsToBytes(b).res,
                     ConvertMediaFieldsToBytes(b).reads)
    ELSE BuildResult(BuildAfterFirst(b, TakeRequired(b, BuildOrder[1])).nb,
                     BuildAfterFirst(b, TakeRequired(b, BuildOrder[1])).res,
                     ConvertMediaFieldsToBytes(b).reads)
\* NoteBuilder::build(client), notes.rs lines 210-235: the required fields
\* are checked and taken one after the other; then the media are resolved;
\* then the optional fields are taken and the Note returned
Build(b) == BuildAfterFirst(b, TakeRequired(b, BuildOrder[1]))

\* IndexMap::insert(k, v): an existing key keeps its place and takes the new
\* value, a new key goes last
RECURSIVE IndexInsert(_, _, _)
IndexInsert(m, k, v) ==
    IF Len(m) = 0 THEN <<Pair(k, v)>>
    ELSE IF Head(m).k = k THEN <<Pair(k, v)>> \o Tail(m)
    ELSE <<Head(m)>> \o IndexInsert(Tail(m), k, v)
\* IndexMap::extend / collect: insert each entry in turn
RECURSIVE IndexExtend(_, _)
IndexExtend(m, es) ==
    IF Len(es) = 0 THEN m
    ELSE IndexExtend(IndexInsert(m, Head(es).k, Head(es).v), Tail(es))

\* NoteBuilder::field(field_name, value)
SetField(b, k, v) ==
    [b EXCEPT !.fields = TSome(IndexInsert(IF IsSome(b.fields) THEN b.fields.x ELSE <<>>, k, v))]
\* NoteBuilder::extend_fields(append)
ExtendFields(b, es) ==
    [b EXCEPT !.fields = TSome(IndexExtend(IF IsSome(b.fields) THEN b.fields.x ELSE <<>>, es))]

(***************************************************************************)
(* The wire form of a request (generic.rs GenericRequest, serialized with  *)
(* skip_serializing_none) and of its parameters.                           *)
(***************************************************************************)
\* Number / a primitive integer on the wire
WireNum(n) == JNum(n)
WireStr(x) == JStr(x)
\* MediaSource, an externally tagged enum
WireSource(src) ==
    CASE src.tag = "Data" -> JObj(<<Pair("Data", JArr(MapSeq(WireNum, src.bytes)))>>)
      [] src.tag = "Url"  -> JObj(<<Pair("Url", JStr(src.url))>>)
      [] src.tag = "Path" -> JObj(<<Pair("Path", JStr(src.path))>>)
      [] OTHER            -> JStr("_Empty")
\* a member that is left out when the Option is None
Opt(k, o, w(_)) == IF IsSome(o) THEN <<Pair(k, w(o.x))>> ELSE <<>>
\* Media (camelCase, skip_serializing_none)
WireMedia(m) ==
    JObj(<<Pair("data", JBase64(m.data)),
           Pair("fields", JArr(MapSeq(WireStr, m.fields))),
           Pair("filename", JStr(m.filename))>>
         \o Opt("path", m.path, WireSource)
         \o Opt("skipHash", m.skipHash, WireStr)
         \o Opt("url", m.url, WireSource))
WireMediaList(l) == JArr(MapSeq(WireMedia, l))
WireTags(l) == JArr(MapSeq(WireStr, l))
WireFieldEntry(e) == Pair(e.k, JStr(e.v))
\* the field names there are, in byte order
KeyOrder == <<"Back", "Front", "a", "b", "c">>
\* the entries of m from the r-th name of KeyOrder on, in that order
RECURSIVE SortedFrom(_, _)
SortedFrom(m, r) ==
    IF r > Len(KeyOrder) THEN <<>>
    ELSE SelectSeq(m, LAMBDA e : e.k = KeyOrder[r]) \o SortedFrom(m, r + 1)
\* the IndexMap of fields as json!({"notes": notes}) holds it: a
\* serde_json::Map, which keeps its entries sorted by key
WireFields(fields) == JObj(SortedFrom(MapSeq(WireFieldEntry, fields), 1))
\* DuplicateScopeOptions (camelCase, skip_serializing_none)
WireScopeOptions(o) ==
    JObj(<<Pair("checkAllModels", JBool(o.check_all_models)),
           Pair("checkChildren", JBool(o.check_children))>>
         \o Opt("deckName", o.deck_name, WireStr))
\* NoteOptions (camelCase)
WireOptions(o) ==
    JObj(<<Pair("allowDuplicate", JBool(o.allow_duplicate)),
           Pair("duplicateScope", JStr(o.duplicate_scope)),
           Pair("duplicateScopeOptions", WireScopeOptions(o.duplicate_scope_options))>>)
\* Note (camelCase, skip_serializing_none; audios, videos and pictures are
\* renamed audio, video and picture)
WireNote(n) ==
    JObj(Opt("audio", n.audios, WireMediaList)
         \o <<Pair("deckName", JStr(n.deck_name)),
              Pair("fields", WireFields(n.fields)),
              Pair("modelName", JStr(n.model_name))>>
         \o Opt("options", n.options, WireOptions)
         \o Opt("picture", n.pictures, WireMediaList)
         \o Opt("tags", n.tags, WireTags)
         \o Opt("video", n.videos, WireMediaList))

\* an envelope without skip_serializing_none: params is null when None
GenericRequestNullParams(action, version, params) ==
    JObj(<<Pair("action", JStr(action)),
           Pair("params", IF IsSome(params) THEN params.x ELSE JNull),
           Pair("version", JNum(version))>>)
\* GenericRequestBuilder ... .build(): {action, version, params}, params left
\* out when None
GenericRequest(action, version, params) ==
    JObj(<<Pair("action", JStr(action))>>
         \o Opt("params", params, LAMBDA x : x)
         \o <<Pair("version", JNum(version))>>)

(***************************************************************************)
(* The facade: one operator per method, giving what post_generic_request   *)
(* gave with the Result the method itself returns.                         *)
(***************************************************************************)
Returning(call, res) ==
    [posted |-> call.posted, val |-> call.val, reply |-> call.res, res |-> res]

\* NotesProxy::find_notes(query)
FindNotesCall(query, n) ==
    LET call == PostGenericRequest("VecIsize",
                    GenericRequest("findNotes", Version,
                                   TSome(JObj(<<Pair("query", JStr(query))>>))), n)
    IN  Returning(call, call.res)

\* get_notes_infos without its is_empty test
GetNotesInfosCallPassesEmpty(ids, n) ==
    Returning(PostGenericRequest("VecNotesInfo",
                  GenericRequest("findNotes", Version,
                      TSome(JObj(<<Pair("notes", JArr(MapSeq(WireNum, ids)))>>))), n),
              PostGenericRequest("VecNotesInfo",
                  GenericRequest("findNotes", Version,
                      TSome(JObj(<<Pair("notes", JArr(MapSeq(WireNum, ids)))>>))), n).res)
\* NotesProxy::get_notes_infos(ids): an empty list is NoDataFound
GetNotesInfosCall(ids, n) ==
    LET call == PostGenericRequest("VecNotesInfo",
                    GenericRequest("findNotes", Version,
                        TSome(JObj(<<Pair("notes", JArr(MapSeq(WireNum, ids)))>>))), n)
    IN  IF call.res.kind = "Ok" /\ Len(call.res.value.items) = 0
        THEN Returning(call, NoDataFound)
        ELSE Returning(call, call.res)

\* NotesProxy::add_notes(notes): Ok(res.unwrap())
AddNotesCall(notes, n) ==
    LET call == PostGenericRequest("OptVecIsize",
                    GenericRequest("addNotes", Version,
                        TSome(JObj(<<Pair("notes", JArr(MapSeq(WireNote, notes)))>>))), n)
    IN  IF call.res.kind # "Ok" THEN Returning(call, call.res)
        ELSE IF IsSome(call.res.value) THEN Returning(call, ErrOk(call.res.value.x))
        ELSE Returning(call, Panic)

\* NotesProxy::gui_edit(id)
GuiEditCall(id, n) ==
    LET call == PostGenericRequest("Unit",
                    GenericRequest("guiEditNote", Version,
                                   TSome(JObj(<<Pair("note", WireNum(id))>>))), n)
    IN  Returning(call, call.res)

\* NotesProxy::delete_notes_by_ids(ids)
DeleteNotesByIdsCall(ids, n) ==
    LET call == PostGenericRequest("Unit",
                    GenericRequest("deleteNotes", Version,
                        TSome(JObj(<<Pair("notes", JArr(MapSeq(WireNum, ids)))>>))), n)
    IN  Returning(call, call.res)

\* DecksProxy::get_all_deck_names_and_ids()
GetAllDeckNamesAndIdsCall(n) ==
    LET call == PostGenericRequest("DeckMap",
                    GenericRequest("deckNamesAndIds", Version, TNone), n)
    IN  Returning(call, call.res)

\* the result type each method asks post_generic_request for
TypeOf(o) ==
    CASE o = "find_notes"                 -> "VecIsize"
      [] o = "get_notes_infos"            -> "VecNotesInfo"
      [] o = "add_notes"                  -> "OptVecIsize"
      [] o = "gui_edit"                   -> "Unit"
      [] o = "delete_notes_by_ids"        -> "Unit"
      [] o = "get_all_deck_names_and_ids" -> "DeckMap"

(***************************************************************************)
(* The inputs the model draws.                                             *)
(***************************************************************************)
EmptyObj == JObj(<<>>)
\* a notesInfo record, whose `fields` is an empty object inside it
InfoObj ==
    JObj(<<Pair("fields", EmptyObj), Pair("modelName", JStr("Basic")),
           Pair("noteId", JNum(3)), Pair("tags", JArr(<<JStr("t")>>))>>)
\* a record that is not empty but lacks members
PartialObj == JObj(<<Pair("noteId", JNum(3))>>)
\* an array element that is itself an array holding an empty object
NestedArr == JArr(<<EmptyObj>>)
\* what a `result` array may hold
Elems == {JNum(1), JNum(2), JStr("s"), EmptyObj, InfoObj, PartialObj, NestedArr}
\* a deckNamesAndIds result
DeckObj == JObj(<<Pair("Default", JNum(1))>>)

ResultValues ==
    {Absent, JNull, JNum(1), JStr("s"), EmptyObj, DeckObj}
        \cup {JArr(a) : a \in SeqsUpTo(Elems, MaxLen)}
ErrorValues == {Absent, JNull, JStr("msg"), JNum(5)}

Present(k, v) == IF v.t = "absent" THEN <<>> ELSE <<Pair(k, v)>>
\* the response object with these members
Response(r, e) == JObj(Present("error", e) \o Present("result", r))

Bodies ==
    {Response(r, e) : r \in ResultValues, e \in ErrorValues}
        \cup {NotJson, JNum(1),
              JArr(<<JArr(<<JNum(1)>>), JNull>>),
              JArr(<<JNull, JStr("msg")>>),
              JArr(<<JNull>>),
              JArr(<<>>),
              JArr(<<JStr("s"), JNum(5), JNum(1)>>),
              JArr(<<JArr(<<JNum(1)>>), JNum(5), JNum(1)>>),
              JArr(<<JArr(<<JNum(1)>>), JNull, JNum(1)>>)}
\* what send() fails with: connection refused, timeout, DNS
SendErrors == {"connection refused", "operation timed out", "dns error"}
Nets ==
    {[send |-> "err", msg |-> e, body |-> NotJson] : e \in SendErrors}
        \cup {[send |-> "ok", msg |-> "", body |-> b] : b \in Bodies}

OptionsA ==
    [allow_duplicate |-> FALSE, duplicate_scope |-> "Deck",
     duplicate_scope_options |->
        [deck_name |-> TNone, check_children |-> FALSE, check_all_models |-> FALSE]]
NoteA ==
    [deck_name |-> "Default", model_name |-> "Basic",
     fields |-> <<Pair("Front", "a")>>, options |-> TNone, tags |-> TSome(<<"t">>),
     audios |-> TNone, videos |-> TNone, pictures |-> TNone]
\* a note whose fields were given as Front, then Back
NoteB == [NoteA EXCEPT !.fields = <<Pair("Front", "a"), Pair("Back", "b")>>]

Ops == {"find_notes", "get_notes_infos", "add_notes", "gui_edit",
        "delete_notes_by_ids", "get_all_deck_names_and_ids"}
ArgsOf(o) ==
    CASE o = "find_notes"                 -> {"is:new"}
      [] o = "get_notes_infos"            -> {<<>>, <<1, 2>>}
      [] o = "add_notes"                  -> {<<>>, <<NoteA>>, <<NoteB>>}
      [] o = "gui_edit"                   -> {1}
      [] o = "delete_notes_by_ids"        -> {<<>>, <<1, 2>>}
      [] o = "get_all_deck_names_and_ids" -> {"-"}

\* the Media items a caller stages: inline data, a URL that answers, a URL
\* that cannot be reached, and nothing at all
MediaInline  == MediaOf("inline.mp3", <<9>>, TNone, TNone)
MediaFromUrl == MediaOf("url.mp3", <<>>, TSome(SrcUrl("http://ok/a.mp3")), TNone)
MediaNothing == MediaOf("nothing.mp3", <<>>, TNone, TNone)
MediaGone    == MediaOf("gone.mp3", <<9>>, TSome(SrcUrl("http://gone/a.mp3")), TNone)
MediaItems == {MediaInline, MediaFromUrl, MediaGone, MediaNothing}
\* the lists a caller stages under audios, videos or pictures
MediaLists == SeqsUpTo(MediaItems, MaxMedia) \ {<<>>}
\* the lists staged under videos: one item with a URL source
VideoLists == {<<MediaFromUrl>>, <<MediaGone>>}
\* .url("hello"): the string is no file and no URL, the url member holds
\* its bytes as an inline source
MediaCoerced == MediaOf("coerced.mp3", <<>>, TSome(FromStr("hello")), TNone)
\* the lists staged under pictures: one item without a url or path, or with
\* an inline source
PictureLists == {<<MediaInline>>, <<MediaNothing>>, <<MediaCoerced>>}

\* the (field_name, value) pairs a caller gives to field()
FieldInputs == {Pair("Front", "a"), Pair("Front", "b"), Pair("Back", "a")}

\* the lists a caller gives to extend_fields()
FieldLists == {<<>>, <<Pair("Back", "a"), Pair("Front", "b")>>}

\* the number of Media staged in one of audios, videos, pictures
Staged(f) == IF IsSome(f) /\ IsSome(f.x) THEN Len(f.x.x) ELSE 0

(***************************************************************************)
(* The caches.  `modules` is the Option<Arc<AnkiModules>> of a store: TRUE *)
(* when it holds a connection.  A listing is a sequence of name-value      *)
(* pairs in IndexMap order.                                                *)
(***************************************************************************)
\* a method that returns the receiver (&mut Self)
Self == [kind |-> "Self"]
\* AnkiError::Cache(CacheError::Dehydrated)
Dehydrated == [kind |-> "Cache", err |-> "Dehydrated"]
\* ModelCache::new(modules)
ModelCacheNew == [modules |-> TRUE, cache |-> <<>>]
\* DeckCache::new(modules)
DeckCacheNew == [modules |-> TRUE, cache |-> <<>>]
\* Cache::init(modules)
CacheInit == [modules |-> TRUE, models |-> ModelCacheNew]
\* a ModelCache or DeckCache written out and read back: #[serde(skip)]
\* leaves modules at its default, None
Deserialized(c) == [modules |-> FALSE, cache |-> c.cache]
\* a Cache written out and read back
CacheDeserialized(c) == [modules |-> FALSE, models |-> Deserialized(c.models)]
\* Cache::hydrate(modules)
CacheHydrate(c) == [c EXCEPT !.modules = TRUE]
\* a ModelCache::hydrate that keeps the entries the new listing lacks
ModelCacheHydrateMerging(mc, answer) ==
    IF ~mc.modules
    THEN [store |-> mc, asked |-> 0, res |-> Dehydrated]
    ELSE IF answer.kind # "Ok"
    THEN [store |-> mc, asked |-> 1, res |-> answer]
    ELSE [store |-> [mc EXCEPT !.cache = IndexExtend(mc.cache, answer.value.es)],
          asked |-> 1, res |-> ErrOk(Self)]
\* a ModelCache::hydrate that clears the store before it asks
ModelCacheHydrateClearingFirst(mc, answer) ==
    IF ~mc.modules
    THEN [store |-> mc, asked |-> 0, res |-> Dehydrated]
    ELSE IF answer.kind # "Ok"
    THEN [store |-> [mc EXCEPT !.cache = <<>>], asked |-> 1, res |-> answer]
    ELSE [store |-> [mc EXCEPT !.cache = answer.value.es],
          asked |-> 1, res |-> ErrOk(Self)]
\* ModelCache::hydrate(), answer being what get_all_models_full() returns
ModelCacheHydrate(mc, answer) ==
    IF ~mc.modules
    THEN [store |-> mc, asked |-> 0, res |-> Dehydrated]
    ELSE IF answer.kind # "Ok"
    THEN [store |-> mc, asked |-> 1, res |-> answer]
    ELSE [store |-> [mc EXCEPT !.cache = answer.value.es],
          asked |-> 1, res |-> ErrOk(Self)]
\* Cache::update_all(): self.models_mut().hydrate().await?; Ok(())
CacheUpdateAll(c, answer) ==
    [store |-> [c EXCEPT !.models = ModelCacheHydrate(c.models, answer).store],
     asked |-> ModelCacheHydrate(c.models, answer).asked,
     res   |-> IF ModelCacheHydrate(c.models, answer).res.kind = "Ok"
               THEN ErrOk(TUnit)
               ELSE ModelCacheHydrate(c.models, answer).res]
\* ModelCache::update() of cache.rs, answer being what
\* get_all_models_less() returns
ModelCacheUpdate(listing, answer) ==
    IF answer.kind # "Ok"
    THEN [store |-> listing, asked |-> 1, res |-> answer]
    ELSE [store |-> answer.value.es, asked |-> 1, res |-> ErrOk(TUnit)]
\* whether the listing has the key
ContainsKey(m, k) == \E i \in 1..Len(m) : m[i].k = k
\* the loop of hydrate_names: a name the store lacks is inserted with None
RECURSIVE InsertNames(_, _)
InsertNames(m, es) ==
    IF es = <<>> THEN m
    ELSE IF ContainsKey(m, es[1].k) THEN InsertNames(m, Tail(es))
    ELSE InsertNames(Append(m, Pair(es[1].k, TNone)), Tail(es))
\* hydrate_names once get_all_deck_names_and_ids() has returned
HydrateNamesAfter(dc, call) ==
    IF call.res.kind # "Ok"
    THEN [store |-> dc, asked |-> Len(call.posted), res |-> call.res]
    ELSE [store |-> [dc EXCEPT !.cache = InsertNames(dc.cache, call.res.value.es)],
          asked |-> Len(call.posted), res |-> ErrOk(Self)]
\* a hydrate_names that replaces the store by the listing
DeckCacheHydrateNamesReplacing(dc, n) ==
    IF ~dc.modules
    THEN [store |-> dc, asked |-> 0, res |-> Dehydrated]
    ELSE IF GetAllDeckNamesAndIdsCall(n).res.kind # "Ok"
    THEN [store |-> dc, asked |-> 1, res |-> GetAllDeckNamesAndIdsCall(n).res]
    ELSE [store |-> [dc EXCEPT !.cache =
                        InsertNames(<<>>, GetAllDeckNamesAndIdsCall(n).res.value.es)],
          asked |-> 1, res |-> ErrOk(Self)]
\* DeckCache::hydrate_names(), n being what the transport does
DeckCacheHydrateNames(dc, n) ==
    IF ~dc.modules
    THEN [store |-> dc, asked |-> 0, res |-> Dehydrated]
    ELSE HydrateNamesAfter(dc, GetAllDeckNamesAndIdsCall(n))

(***************************************************************************)
(* The codec's state machine: the call drawn in Init is made once.         *)
(***************************************************************************)
BuilderIdle ==
    /\ nb = EmptyBuilder
    /\ pre = NoVal
    /\ ret = NoVal
    /\ io = <<>>
    /\ aborted = FALSE
\* no coercion and no resolution under way
MediaIdle ==
    /\ text = ""
    /\ media = MediaNothing
    /\ step = "idle"
    /\ out = NoVal

\* fresh stores on which nothing was called
CacheIdle ==
    /\ cache = CacheInit
    /\ decks = DeckCacheNew
    /\ legacy = <<>>
    /\ last = [call |-> "none"]

InitCodec ==
    /\ op \in Ops
    /\ arg \in ArgsOf(op)
    /\ net \in Nets
    /\ pc = "ready"
    /\ sent = <<>>
    /\ val = NoVal
    /\ reply = NoVal
    /\ outcome = NoVal
    /\ BuilderIdle
    /\ MediaIdle
    /\ CacheIdle

Returns(call) ==
    /\ pc' = "done"
    /\ sent' = sent \o call.posted
    /\ val' = call.val
    /\ reply' = call.reply
    /\ outcome' = call.res
    /\ UNCHANGED <<op, arg, net>>
    /\ UNCHANGED builderVars
    /\ UNCHANGED mediaVars
    /\ UNCHANGED cacheVars

FindNotes ==
    /\ pc = "ready" /\ op = "find_notes"
    /\ Returns(FindNotesCall(arg, net))
GetNotesInfos ==
    /\ pc = "ready" /\ op = "get_notes_infos"
    /\ Returns(GetNotesInfosCall(arg, net))
AddNotes ==
    /\ pc = "ready" /\ op = "add_notes"
    /\ Returns(AddNotesCall(arg, net))
GuiEdit ==
    /\ pc = "ready" /\ op = "gui_edit"
    /\ Returns(GuiEditCall(arg, net))
DeleteNotesByIds ==
    /\ pc = "ready" /\ op = "delete_notes_by_ids"
    /\ Returns(DeleteNotesByIdsCall(arg, net))
GetAllDeckNamesAndIds ==
    /\ pc = "ready" /\ op = "get_all_deck_names_and_ids"
    /\ Returns(GetAllDeckNamesAndIdsCall(net))

NextCodec ==
    \/ FindNotes
    \/ GetNotesInfos
    \/ AddNotes
    \/ GuiEdit
    \/ DeleteNotesByIds
    \/ GetAllDeckNamesAndIds

SpecCodec == InitCodec /\ [][NextCodec]_vars

(***************************************************************************)
(* The builder's state machine: a NoteBuilder from create_empty(), on      *)
(* which the caller runs setters and build() in any order.  A setter       *)
(* returns the builder itself.                                             *)
(***************************************************************************)
CodecIdle ==
    /\ op = "find_notes"
    /\ arg = "is:new"
    /\ net = [send |-> "err", msg |-> "connection refused", body |-> NotJson]
    /\ pc = "ready"
    /\ sent = <<>>
    /\ val = NoVal
    /\ reply = NoVal
    /\ outcome = NoVal

InitBuilder ==
    /\ nb = EmptyBuilder
    /\ pre = NoVal
    /\ ret = NoVal
    /\ io = <<>>
    /\ aborted = FALSE
    /\ CodecIdle
    /\ MediaIdle
    /\ CacheIdle


\* a setter's effect: the staging fields change, the builder is returned
Sets(b) ==
    /\ ~aborted
    /\ nb' = b
    /\ pre' = NoVal
    /\ ret' = Self
    /\ io' = <<>>
    /\ UNCHANGED aborted
    /\ UNCHANGED codecVars
    /\ UNCHANGED mediaVars
    /\ UNCHANGED cacheVars

\* NoteBuilder::deck_name(value), generated with strip_option
DeckName == \E v \in {"", "Default"} : Sets([nb EXCEPT !.deck_name = TSome(v)])
\* NoteBuilder::model_name(value)
ModelName == \E v \in {"", "Basic"} : Sets([nb EXCEPT !.model_name = TSome(v)])
\* NoteBuilder::field(field_name, value)
Field == \E e \in FieldInputs : Sets(SetField(nb, e.k, e.v))
\* NoteBuilder::extend_fields(append)
ExtendFieldsWith == \E es \in FieldLists : Sets(ExtendFields(nb, es))
\* NoteBuilder::tags(value)
Tags == \E v \in {<<"t">>} : Sets([nb EXCEPT !.tags = TSome(TSome(v))])
\* NoteBuilder::options(value)
Options == Sets([nb EXCEPT !.options = TSome(TSome(OptionsA))])
\* NoteBuilder::audios(value)
Audios ==
    \E l \in MediaLists :
        /\ Len(l) + Staged(nb.videos) + Staged(nb.pictures) <= MaxMedia
        /\ Sets([nb EXCEPT !.audios = TSome(TSome(l))])
\* NoteBuilder::videos(value)
Videos ==
    \E l \in VideoLists :
        /\ Len(l) + Staged(nb.audios) + Staged(nb.pictures) <= MaxMedia
        /\ Sets([nb EXCEPT !.videos = TSome(TSome(l))])
\* NoteBuilder::pictures(value)
Pictures ==
    \E l \in PictureLists :
        /\ Len(l) + Staged(nb.audios) + Staged(nb.videos) <= MaxMedia
        /\ Sets([nb EXCEPT !.pictures = TSome(TSome(l))])

\* NoteBuilder::build(client)
BuildNote ==
    /\ ~aborted
    /\ \E r \in {Build(nb)} :
           /\ nb' = r.nb
           /\ pre' = nb
           /\ ret' = r.res
           /\ io' = r.reads
           /\ aborted' = (r.res.kind = "Panic")
    /\ UNCHANGED codecVars
    /\ UNCHANGED mediaVars
    /\ UNCHANGED cacheVars

NextBuilder ==
    \/ DeckName
    \/ ModelName
    \/ Field
    \/ ExtendFieldsWith
    \/ Tags
    \/ Options
    \/ Audios
    \/ Videos
    \/ Pictures
    \/ BuildNote

SpecBuilder == InitBuilder /\ [][NextBuilder]_vars

(***************************************************************************)
(* Media on its own: a string is coerced to a MediaSource, or a Media item *)
(* is resolved with Media::data.                                           *)
(***************************************************************************)
\* the strings a caller gives to MediaSource::from
Texts == {"", "hello", "/ok.mp3", "/no.mp3", "data:x", "data:y",
          "http://ok/a.mp3", "HTTP://OK/a.mp3"}
\* what the url member holds: a URL (answering, answering with an empty
\* body, unreachable), or what the `into` setter made of a string that names
\* an existing file
UrlSlots ==
    {TNone, TSome(SrcUrl("http://ok/a.mp3")), TSome(SrcUrl("http://empty/a.mp3")),
     TSome(SrcUrl("http://gone/a.mp3")), TSome(FromStr("/ok.mp3"))}
\* what the path member holds: a path (a file, an empty file, a file removed
\* since), or what the `into` setter made of a string that was a URL
PathSlots ==
    {TNone, TSome(SrcPath("/ok.mp3")), TSome(SrcPath("/empty.mp3")),
     TSome(SrcPath("/gone.mp3")), TSome(FromStr("http://ok/a.mp3"))}
\* the Media items a caller makes
Items ==
    {MediaOf(f, d, u, p) : f \in {"a.mp3"}, d \in {<<>>, <<9>>},
                           u \in UrlSlots, p \in PathSlots}

InitMedia ==
    /\ text \in Texts
    /\ media \in Items
    /\ step = "ready"
    /\ out = NoVal
    /\ CodecIdle
    /\ BuilderIdle
    /\ CacheIdle

\* MediaSource::from(text)
MediaSourceFrom ==
    /\ step = "ready"
    /\ step' = "from"
    /\ out' = [src |-> FromStr(text)]
    /\ UNCHANGED <<text, media>>
    /\ UNCHANGED codecVars
    /\ UNCHANGED builderVars
    /\ UNCHANGED cacheVars

\* item.data(client)
MediaDataCall ==
    /\ step = "ready"
    /\ step' = "data"
    /\ out' = MediaData(media)
    /\ UNCHANGED <<text, media>>
    /\ UNCHANGED codecVars
    /\ UNCHANGED builderVars
    /\ UNCHANGED cacheVars

NextMedia ==
    \/ MediaSourceFrom
    \/ MediaDataCall

SpecMedia == InitMedia /\ [][NextMedia]_vars

(***************************************************************************)
(* The caches' state machine: a Cache from Cache::init, a DeckCache from   *)
(* DeckCache::new and the ModelCache of cache.rs, on which the caller runs *)
(* refreshes, serialization round trips and Cache::hydrate in any order.   *)
(***************************************************************************)
\* the model listings the service returns; a details value stands for one
\* FullModelDetails
ModelListings ==
    {<<>>, <<Pair("Basic", 1)>>, <<Pair("Cloze", 1)>>,
     <<Pair("Basic", 2), Pair("Cloze", 1)>>}
\* what get_all_models_full() / get_all_models_less() returns
ModelAnswers ==
    {ErrOk(TMap(l)) : l \in ModelListings}
        \cup {RequestError("connection refused"), AnkiConnect("msg")}
\* what the transport does on deckNamesAndIds
DeckNets ==
    {[send |-> "err", msg |-> "connection refused", body |-> NotJson],
     [send |-> "ok", msg |-> "", body |-> Response(JNull, JStr("msg"))],
     [send |-> "ok", msg |-> "", body |-> Response(JArr(<<>>), JNull)]}
        \cup {[send |-> "ok", msg |-> "", body |-> Response(JObj(m), JNull)] :
                 m \in {<<>>, <<Pair("Default", JNum(1))>>,
                        <<Pair("Mining", JNum(2))>>,
                        <<Pair("Default", JNum(1)), Pair("Mining", JNum(2))>>}}
\* a DeckConfig {id, name}
DeckConfigOf(id, name) == [id |-> id, name |-> name]
\* the entries of a DeckCache read from its serialized form
DeckStores ==
    {<<Pair("Default", TSome(DeckConfigOf(1, "Default")))>>,
     <<Pair("Old", TNone), Pair("Default", TSome(DeckConfigOf(1, "Default")))>>}

InitCache ==
    /\ cache = CacheInit
    /\ decks = DeckCacheNew
    /\ legacy = <<>>
    /\ last = [call |-> "none"]
    /\ CodecIdle
    /\ BuilderIdle
    /\ MediaIdle

\* the call, the store it was made on, the requests it made, what the
\* service answered and what the call did
Records(name, before, answer, r) ==
    last' = [call |-> name, before |-> before, asked |-> r.asked,
             answer |-> IF r.asked = 0 THEN NoVal ELSE answer,
             res |-> r.res, after |-> r.store]
Quiet == UNCHANGED codecVars /\ UNCHANGED builderVars /\ UNCHANGED mediaVars

\* cache.models_mut().hydrate()
HydrateModels ==
    \E answer \in ModelAnswers :
        \E r \in {ModelCacheHydrate(cache.models, answer)} :
            /\ cache' = [cache EXCEPT !.models = r.store]
            /\ Records("hydrate", cache.models, answer, r)
            /\ UNCHANGED <<decks, legacy>>
            /\ Quiet
\* cache.update_all()
UpdateAll ==
    \E answer \in ModelAnswers :
        \E r \in {CacheUpdateAll(cache, answer)} :
            /\ cache' = r.store
            /\ Records("update_all", cache, answer, r)
            /\ UNCHANGED <<decks, legacy>>
            /\ Quiet
\* cache.hydrate(modules)
Hydrate ==
    /\ cache' = CacheHydrate(cache)
    /\ last' = [call |-> "Cache::hydrate", before |-> cache, asked |-> 0,
                answer |-> NoVal, res |-> Self, after |-> CacheHydrate(cache)]
    /\ UNCHANGED <<decks, legacy>>
    /\ Quiet
\* the Cache is serialized and read back
RoundTrip ==
    /\ cache' = CacheDeserialized(cache)
    /\ last' = [call |-> "serde", before |-> cache, asked |-> 0,
                answer |-> NoVal, res |-> NoVal, after |-> CacheDeserialized(cache)]
    /\ UNCHANGED <<decks, legacy>>
    /\ Quiet
\* the ModelCache of cache.rs: models.update()
Update ==
    \E answer \in ModelAnswers :
        \E r \in {ModelCacheUpdate(legacy, answer)} :
            /\ legacy' = r.store
            /\ Records("update", legacy, answer, r)
            /\ UNCHANGED <<cache, decks>>
            /\ Quiet
\* decks.hydrate_names()
HydrateNames ==
    \E n \in DeckNets :
        \E r \in {DeckCacheHydrateNames(decks, n)} :
            /\ decks' = r.store
            /\ Records("hydrate_names", decks, GetAllDeckNamesAndIdsCall(n).res, r)
            /\ UNCHANGED <<cache, legacy>>
            /\ Quiet
\* the DeckCache is serialized and read back
DeckRoundTrip ==
    /\ decks' = Deserialized(decks)
    /\ last' = [call |-> "serde", before |-> decks, asked |-> 0,
                answer |-> NoVal, res |-> NoVal, after |-> Deserialized(decks)]
    /\ UNCHANGED <<cache, legacy>>
    /\ Quiet
\* a DeckCache is read from a serialized form that holds configs
DeckDeserialize ==
    \E entries \in DeckStores :
        /\ decks' = Deserialized([modules |-> TRUE, cache |-> entries])
        /\ last' = [call |-> "deserialize", before |-> decks, asked |-> 0,
                    answer |-> NoVal, res |-> NoVal,
                    after |-> Deserialized([modules |-> TRUE, cache |-> entries])]
        /\ UNCHANGED <<cache, legacy>>
        /\ Quiet

NextCache ==
    \/ HydrateModels
    \/ UpdateAll
    \/ Hydrate
    \/ RoundTrip
    \/ Update
    \/ HydrateNames
    \/ DeckRoundTrip
    \/ DeckDeserialize

SpecCache == InitCache /\ [][NextCache]_vars

(***************************************************************************)
(* Properties of the codec, checked under SpecCodec.                       *)
(***************************************************************************)
\* the type the call in progress asks for
T == TypeOf(op)
\* the call has returned and a response value reached typed decoding
Decoding == pc = "done" /\ val # NoVal
\* the `error` the response carries: the member of an object, the second
\* element of a two-element array
ErrorOf(b) ==
    CASE b.t = "obj"                  -> Member(b.m, "error")
      [] b.t = "arr" /\ Len(b.a) = 2  -> b.a[2]
      [] OTHER                        -> Absent
\* a sequence without its empty objects, order kept
RECURSIVE WithoutEmptyObjects(_)
WithoutEmptyObjects(a) ==
    IF Len(a) = 0 THEN <<>>
    ELSE IF IsEmptyObject(Head(a)) THEN WithoutEmptyObjects(Tail(a))
    ELSE <<Head(a)>> \o WithoutEmptyObjects(Tail(a))

\* C1: error exclusivity.  Whenever the response decodes and its `error` is a
\* string e, post_generic_request returns AnkiConnect(e), with e as received,
\* whatever `result` holds; it does not return Ok.
C1_ErrorExclusivity ==
    (Decoding /\ DecodesAs(T, val) /\ ErrorOf(net.body).t = "str")
        => reply = AnkiConnect(ErrorOf(net.body).s)
\* an error string beside a result that is present and well-typed
C1_Witness ==
    /\ pc = "done"
    /\ op = "find_notes"
    /\ net.body = Response(JArr(<<JNum(1), JNum(2)>>), JStr("msg"))
    /\ reply = AnkiConnect("msg")

\* C2: for every result type of the facade, a response object whose `error`
\* is a string yields AnkiConnect(error), whether `result` is present, absent
\* or null.
C2_ErrorWinsForEveryType ==
    (pc = "done" /\ net.send = "ok" /\ net.body.t = "obj"
        /\ Member(net.body.m, "error").t = "str")
        => reply = AnkiConnect(Member(net.body.m, "error").s)

\* C3: the sanitization rule.  When the response's `result` is an array A, the
\* value handed to decoding has as `result` A without its empty objects, the
\* other elements unchanged and in their order.
C3_SanitizationRule ==
    (Decoding /\ GetResult(net.body).t = "arr")
        => GetResult(val) = JArr(WithoutEmptyObjects(GetResult(net.body).a))
\* empty objects around elements that stay, among them an object that is not
\* empty, an array and a string
C3_Witness ==
    /\ pc = "done"
    /\ GetResult(net.body) = JArr(<<EmptyObj, InfoObj, EmptyObj>>)
    /\ GetResult(val) = JArr(<<InfoObj>>)

\* C4: sanitization is idempotent.  Sanitizing the value that was handed to
\* decoding, which is the sanitized response, changes nothing.
C4_SanitizeIdempotent == Decoding => Sanitize(val) = val
\* a response from which two empty objects were removed
C4_Witness ==
    /\ pc = "done"
    /\ GetResult(net.body) = JArr(<<EmptyObj, JNum(1), EmptyObj>>)
    /\ val # net.body
    /\ Sanitize(val) = val

\* the values of a result type, and their wire form
InfoA == [noteId |-> 3, modelName |-> "Basic", tags |-> <<"t">>, fields |-> <<>>]
TypedValues(ty) ==
    CASE ty = "VecIsize"     -> {TVec(x) : x \in SeqsUpTo({1, 2}, MaxLen)}
      [] ty = "VecNotesInfo" -> {TVec(x) : x \in SeqsUpTo({InfoA}, MaxLen)}
      [] ty = "OptVecIsize"  -> {TNone} \cup {TSome(TVec(x)) : x \in SeqsUpTo({1, 2}, MaxLen)}
      [] ty = "Unit"         -> {TUnit}
      [] ty = "DeckMap"      -> {TMap(<<>>), TMap(<<Pair("Default", 1)>>)}
EncodeFieldData(e) ==
    Pair(e.k, JObj(<<Pair("order", JNum(e.v.order)), Pair("value", JStr(e.v.value))>>))
EncodeInfo(i) ==
    JObj(<<Pair("fields", JObj(MapSeq(EncodeFieldData, i.fields))),
           Pair("modelName", JStr(i.modelName)),
           Pair("noteId", JNum(i.noteId)),
           Pair("tags", JArr(MapSeq(WireStr, i.tags)))>>)
EncodeDeck(e) == Pair(e.k, JNum(e.v))
Encode(ty, V) ==
    CASE ty = "VecIsize"     -> JArr(MapSeq(WireNum, V.items))
      [] ty = "VecNotesInfo" -> JArr(MapSeq(EncodeInfo, V.items))
      [] ty = "OptVecIsize"  -> IF IsSome(V) THEN JArr(MapSeq(WireNum, V.x.items)) ELSE JNull
      [] ty = "Unit"         -> JNull
      [] ty = "DeckMap"      -> JObj(MapSeq(EncodeDeck, V.es))

\* C5: envelope round trip.  For every typed value V, a response whose
\* `result` is V's wire form and whose `error` is null makes the codec return
\* Ok(V): the same elements in the same order.
C5_RoundTrip ==
    \A V \in TypedValues(T) :
        (pc = "done" /\ net.send = "ok" /\ net.body = Response(Encode(T, V), JNull))
            => reply = ErrOk(V)
\* the find-notes response [1, 2]
C5_Witness ==
    /\ pc = "done"
    /\ op = "find_notes"
    /\ net.body = Response(JArr(<<JNum(1), JNum(2)>>), JNull)
    /\ reply = ErrOk(TVec(<<1, 2>>))
    /\ outcome = reply

\* C6: a value that does not decode as GenericResult<T> makes the call fail
\* with CustomSerde, which carries the expected type's name, the value that
\* was received for decoding and serde's diagnostic, none of them left
\* unspecified.
C6_MalformedResponse ==
    (Decoding /\ ~DecodesAs(T, val))
        => /\ reply.kind = "CustomSerde"
           /\ reply.exp = TypeName(T)
           /\ reply.recv = val
           /\ reply.help = Diagnostic(T, val)
           /\ reply.exp # "<unspecified>"
           /\ reply.help # "<unspecified>"
           /\ outcome = reply
\* find_notes answered with an array that holds a string, after an empty
\* object was removed from it
C6_Witness ==
    /\ pc = "done"
    /\ op = "find_notes"
    /\ net.body = Response(JArr(<<EmptyObj, JStr("s")>>), JNull)
    /\ reply.kind = "CustomSerde"
    /\ reply.recv = Response(JArr(<<JStr("s")>>), JNull)

(***************************************************************************)
(* Properties of the builder, checked under SpecBuilder.                   *)
(***************************************************************************)
\* the last call was build(), begun with the staging fields `pre`
Built == pre # NoVal
Required == {"deck_name", "model_name", "fields"}
\* a required field that is absent or empty
Violated(b, f) == ~IsSome(b[f]) \/ Len(b[f].x) = 0
ViolatedFields(b) == {f \in Required : Violated(b, f)}
\* the first violated field of b in the given order
FirstViolated(b, order) ==
    order[CHOOSE i \in 1..Len(order) :
              Violated(b, order[i]) /\ \A j \in 1..(i - 1) : ~Violated(b, order[j])]

\* C7 as stated: with more than one required field violated, a validation
\* error names the first violated one in the order deck_name, model_name,
\* fields.
C7_DeckNameFirst ==
    (Built /\ Cardinality(ViolatedFields(pre)) > 1 /\ ret.kind = "UninitializedField")
        => ret.field = FirstViolated(pre, <<"deck_name", "model_name", "fields">>)
\* C7 as amended: with more than one required field violated, a validation
\* error names the first violated one in the order fields, deck_name,
\* model_name, and build() returns that error whenever that first violated
\* field is set but empty.
C7_FieldsFirst ==
    (Built /\ Cardinality(ViolatedFields(pre)) > 1)
        => LET f == FirstViolated(pre, <<"fields", "deck_name", "model_name">>)
           IN  /\ ret.kind = "UninitializedField" => ret.field = f
               /\ IsSome(pre[f]) => ret = UninitializedField(f)
\* fields and deck_name both set and empty: the error names fields
C7_Witness ==
    /\ Built
    /\ pre.fields = TSome(<<>>)
    /\ pre.deck_name = TSome("")
    /\ IsSome(pre.model_name)
    /\ ret = UninitializedField("fields")

\* C8: whenever deck_name, model_name or fields is absent or empty, build()
\* returns the typed validation error; it neither aborts nor returns a Note.
C8_TypedValidationError ==
    (Built /\ ViolatedFields(pre) # {}) => ret.kind = "UninitializedField"

\* the keys of an IndexMap, in order
KeyOf(e) == e.k
Keys(f) == IF IsSome(f) THEN MapSeq(KeyOf, f.x) ELSE <<>>
IsPrefix(a, b) == Len(a) <= Len(b) /\ SubSeq(b, 1, Len(a)) = a
\* a staged Media item resolves: its url source answers, else its path source
\* reads, else it carries data
Resolvable(m) ==
    IF IsSome(m.url) THEN ToData(m.url.x).res.kind = "Ok"
    ELSE IF IsSome(m.path) THEN ToData(m.path.x).res.kind = "Ok"
    ELSE Len(m.data) > 0
\* the data a resolvable item carries once resolved
Resolved(m) ==
    IF IsSome(m.url) THEN ToData(m.url.x).res.value
    ELSE IF IsSome(m.path) THEN ToData(m.path.x).res.value
    ELSE m.data
\* the Media items staged under one field
ItemsOf(f) == IF IsSome(f) /\ IsSome(f.x) THEN f.x.x ELSE <<>>
StagedMedia(b) == ItemsOf(b.audios) \o ItemsOf(b.videos) \o ItemsOf(b.pictures)
AllResolvable(b) == AllOf(Resolvable, StagedMedia(b))
\* the Note's list n is the staged list s: as many items, each the staged
\* item, its data the staged data unless a url or path source supplied it
SameMedia(n, s) ==
    /\ IsSome(n) = (IsSome(s) /\ IsSome(s.x))
    /\ IsSome(n) =>
         /\ Len(n.x) = Len(s.x.x)
         /\ \A i \in 1..Len(n.x) :
               /\ [n.x[i] EXCEPT !.data = <<>>] = [s.x.x[i] EXCEPT !.data = <<>>]
               /\ (~IsSome(s.x.x[i].url) /\ ~IsSome(s.x.x[i].path))
                     => n.x[i].data = s.x.x[i].data
BuildSucceeds ==
    (Built /\ ViolatedFields(pre) = {} /\ AllResolvable(pre))
        => /\ ret.kind = "Ok"
           /\ ret.value.deck_name = pre.deck_name.x
           /\ ret.value.model_name = pre.model_name.x
           /\ ret.value.fields = pre.fields.x
           /\ ret.value.options = Flatten(pre.options)
           /\ ret.value.tags = Flatten(pre.tags)
           /\ SameMedia(ret.value.audios, pre.audios)
           /\ SameMedia(ret.value.videos, pre.videos)
           /\ SameMedia(ret.value.pictures, pre.pictures)
\* field() and extend_fields() keep the staged field names in the order they
\* were first given: a name staged again keeps its place, a new name goes last
KeepsInsertionOrder ==
    /\ \A e \in FieldInputs :
          LET before == Keys(nb.fields)
              after  == Keys(SetField(nb, e.k, e.v).fields)
              staged == e.k \in {before[i] : i \in 1..Len(before)}
          IN  after = IF staged THEN before ELSE Append(before, e.k)
    /\ \A es \in FieldLists :
          IsPrefix(Keys(nb.fields), Keys(ExtendFields(nb, es).fields))

\* C9: builder completeness, success side.  With deck_name, model_name and
\* fields present and non-empty and every Media item resolvable, build()
\* returns a Note with the staged deck_name, model_name and fields, and with
\* the options, tags, audios, videos and pictures that were staged, None for
\* those never set; the fields are staged in insertion order.
C9_BuildCompleteness == BuildSucceeds /\ KeepsInsertionOrder
\* a build of two fields given Back first, with tags, a resolved audio and no
\* options, videos or pictures
C9_Witness ==
    /\ Built
    /\ ret.kind = "Ok"
    /\ Keys(pre.fields) = <<"Back", "Front">>
    /\ ret.value.fields = pre.fields.x
    /\ ret.value.tags = TSome(<<"t">>)
    /\ ret.value.options = TNone
    /\ pre.audios = TSome(TSome(<<MediaFromUrl>>))
    /\ ret.value.audios = TSome(<<[MediaFromUrl EXCEPT !.data = <<1, 2>>]>>)
    /\ ret.value.videos = TNone

\* C10: build is all-or-nothing.  If any staged Media item fails to resolve,
\* build() returns no Note, and an error when the required fields are valid;
\* a Note is returned only when every staged item resolved, and then every
\* item in it carries the data its source resolved to.
C10_AllOrNothing ==
    Built =>
        /\ ~AllResolvable(pre) => ret.kind # "Ok"
        /\ (~AllResolvable(pre) /\ ViolatedFields(pre) = {})
              => ret.kind \in {"MissingMedia", "ReqWestError", "Io"}
        /\ ret.kind = "Ok" =>
              /\ AllResolvable(pre)
              /\ \A f \in {"audios", "videos", "pictures"} :
                    IsSome(ret.value[f]) =>
                        \A i \in 1..Len(ret.value[f].x) :
                            ret.value[f].x[i].data = Resolved(ItemsOf(pre[f])[i])
\* the first audio resolved, the second failed: an error and no Note
C10_Witness ==
    /\ Built
    /\ pre.audios = TSome(TSome(<<MediaFromUrl, MediaNothing>>))
    /\ nb.audios = TSome(TSome(<<[MediaFromUrl EXCEPT !.data = <<1, 2>>], MediaNothing>>))
    /\ ret = MissingMedia("nothing.mp3")

(***************************************************************************)
(* Properties of media resolution and source coercion.                     *)
(***************************************************************************)
\* the source Media::data is to use: the url member if set, else the path
\* member if set, else none
Chosen(m) == IF IsSome(m.url) THEN m.url ELSE IF IsSome(m.path) THEN m.path ELSE TNone
Resolving == step = "data"

\* C11: media resolution precedence.  The payload comes from the url source
\* if one is set, else from the path source if one is set, else the inline
\* data is kept; when the source used fails, its error is returned, no other
\* source is read and the item is left as it was.
C11_ResolutionPrecedence ==
    Resolving =>
        IF IsSome(Chosen(media))
        THEN LET d == ToData(Chosen(media).x)
             IN  /\ out.reads = d.reads
                 /\ d.res.kind = "Ok" =>
                       /\ out.res.kind = "Ok"
                       /\ out.media = [media EXCEPT !.data = d.res.value]
                 /\ d.res.kind # "Ok" => (out.res = d.res /\ out.media = media)
        ELSE out.reads = <<>> /\ out.media = media
\* an unreachable URL, a readable path and inline data: the URL's error, one
\* GET, the item unchanged
C11_Witness ==
    /\ Resolving
    /\ media.url = TSome(SrcUrl("http://gone/a.mp3"))
    /\ media.path = TSome(SrcPath("/ok.mp3"))
    /\ media.data = <<9>>
    /\ out.res = ReqWestError
    /\ out.reads = <<IoGet("http://gone/a.mp3")>>
    /\ out.media = media

\* C12: a Media item with both url and path set is resolved with exactly one
\* fetch, over the URL, and no read of the filesystem.
C12_OneFetchOverUrl ==
    (Resolving /\ IsSome(media.url) /\ IsSome(media.path))
        => /\ Len(out.reads) = 1
           /\ out.reads[1].io = "GET"
           /\ \A i \in 1..Len(out.reads) : out.reads[i].io # "read"

\* an item without url, without path and without data
Sourceless(m) == ~IsSome(m.url) /\ ~IsSome(m.path) /\ Len(m.data) = 0
\* the first staged item that does not resolve
FirstUnresolvable(items) ==
    items[CHOOSE i \in 1..Len(items) :
              ~Resolvable(items[i]) /\ \A j \in 1..(i - 1) : Resolvable(items[j])]
\* C13: a Media item with no url, no path and empty data fails resolution
\* with MissingMedia carrying its filename; build() of a note staging such an
\* item returns no Note, and returns that error when the required fields are
\* valid and the item is the first one that does not resolve.
C13_MissingMediaSource ==
    /\ \A f \in {"a.mp3", "b.png"} :
          LET r == MediaData(MediaOf(f, <<>>, TNone, TNone))
          IN  r.res = MissingMedia(f) /\ r.reads = <<>>
    /\ Built =>
          LET items == StagedMedia(pre)
          IN  /\ (\E i \in 1..Len(items) : Sourceless(items[i])) => ret.kind # "Ok"
              /\ (ViolatedFields(pre) = {} /\ ~AllResolvable(pre)
                    /\ Sourceless(FirstUnresolvable(items)))
                    => ret = MissingMedia(FirstUnresolvable(items).filename)
\* a picture without any source, after an audio that resolved
C13_Witness ==
    /\ Built
    /\ ViolatedFields(pre) = {}
    /\ pre.audios = TSome(TSome(<<MediaFromUrl>>))
    /\ pre.pictures = TSome(TSome(<<MediaNothing>>))
    /\ ret = MissingMedia("nothing.mp3")

\* C14: after Media::data returns Ok the item's data is non-empty.
C14_DataNonEmpty ==
    (Resolving /\ out.res.kind = "Ok") => Len(out.media.data) > 0

\* C15: source coercion precedence.  MediaSource::from(s) is the Path variant
\* of s if s is an existing local path; else the Url variant if s parses as a
\* URL; else the Data variant holding the bytes of s.  It always gives a
\* source.
C15_CoercionPrecedence ==
    step = "from" =>
        /\ PathExists(text) => out.src = SrcPath(text)
        /\ (~PathExists(text) /\ UrlParse(text).ok)
              => (out.src.tag = "Url" /\ out.src.url = UrlParse(text).url)
        /\ (~PathExists(text) /\ ~UrlParse(text).ok) => out.src = SrcData(Bytes(text))
        /\ out.src.tag \in {"Path", "Url", "Data"}
\* a string that is both an existing file and a well-formed URL is a path
C15_Witness ==
    /\ step = "from"
    /\ text = "data:x"
    /\ PathExists(text) /\ UrlParse(text).ok
    /\ out.src = SrcPath("data:x")

(***************************************************************************)
(* Properties of the facade and of the envelope it sends, checked under    *)
(* SpecCodec.                                                              *)
(***************************************************************************)
Called == pc = "done"
\* a response whose result is an empty array and whose error is null
EmptyArrayAnswer == net.send = "ok" /\ net.body = Response(JArr(<<>>), JNull)

\* C16: empty-result semantics differ by action.  Answered with an empty
\* result array and a null error, find_notes returns Ok of the empty list and
\* get_notes_infos returns NoDataFound.
C16_EmptyResultByAction ==
    (Called /\ EmptyArrayAnswer)
        => /\ op = "find_notes" => outcome = ErrOk(TVec(<<>>))
           /\ op = "get_notes_infos" => outcome = NoDataFound
\* get_notes_infos answered with an empty array
C16_Witness ==
    /\ Called /\ EmptyArrayAnswer
    /\ op = "get_notes_infos"
    /\ reply = ErrOk(TVec(<<>>))
    /\ outcome = NoDataFound

\* the action name the interface gives each operation
ActionOf(o) ==
    CASE o = "find_notes"                 -> "findNotes"
      [] o = "get_notes_infos"            -> "notesInfo"
      [] o = "add_notes"                  -> "addNotes"
      [] o = "delete_notes_by_ids"        -> "deleteNotes"
      [] o = "gui_edit"                   -> "guiEditNote"
      [] o = "get_all_deck_names_and_ids" -> "deckNamesAndIds"
\* the parameters each operation supplies, None for the one that has none
ParamsOf(o, a) ==
    CASE o = "find_notes"          -> TSome(JObj(<<Pair("query", JStr(a))>>))
      [] o = "get_notes_infos"     -> TSome(JObj(<<Pair("notes", JArr(MapSeq(JNum, a)))>>))
      [] o = "add_notes"           -> TSome(JObj(<<Pair("notes", JArr(MapSeq(WireNote, a)))>>))
      [] o = "delete_notes_by_ids" -> TSome(JObj(<<Pair("notes", JArr(MapSeq(JNum, a)))>>))
      [] o = "gui_edit"            -> TSome(JObj(<<Pair("note", JNum(a))>>))
      [] OTHER                     -> TNone
\* the members of an envelope
EnvelopeMember(e, k) == Member(e.m, k)

\* C17: each operation sends its own action name and parameter shape, with
\* the backend's version: findNotes {query}, notesInfo {notes}, addNotes
\* {notes}, deleteNotes {notes}, guiEditNote {note}.
C17_ActionNames ==
    (Called /\ op # "get_all_deck_names_and_ids")
        => /\ Len(sent) = 1
           /\ EnvelopeMember(sent[1], "action") = JStr(ActionOf(op))
           /\ EnvelopeMember(sent[1], "params") = ParamsOf(op, arg).x
           /\ EnvelopeMember(sent[1], "version") = JNum(Version)

\* C18: in every envelope sent, `action` is a non-empty string; `params` is
\* left out, not null, when the operation supplies none, and is exactly the
\* parameters supplied otherwise.
C18_ParamsOmitted ==
    \A i \in 1..Len(sent) :
        /\ sent[i].t = "obj"
        /\ EnvelopeMember(sent[i], "action").t = "str"
        /\ EnvelopeMember(sent[i], "action").s # ""
        /\ EnvelopeMember(sent[i], "params").t # "null"
        /\ IF IsSome(ParamsOf(op, arg))
           THEN EnvelopeMember(sent[i], "params") = ParamsOf(op, arg).x
           ELSE ~HasKey(sent[i].m, "params")
\* the deck listing, which supplies no parameters, has been sent
C18_Witness ==
    /\ Called
    /\ op = "get_all_deck_names_and_ids"
    /\ sent = <<JObj(<<Pair("action", JStr("deckNamesAndIds")),
                       Pair("version", JNum(6))>>)>>

\* C19: no internal retry.  Nothing is sent before the call, exactly one
\* envelope has been sent when it returns, and a failure of
\* post_generic_request (transport, malformed response, remote rejection) is
\* what the call returns.
C19_NoRetry ==
    /\ ~Called => sent = <<>>
    /\ Called => Len(sent) = 1
    /\ (Called /\ reply.kind # "Ok") => outcome = reply
\* a remote rejection after one POST
C19_Witness ==
    /\ Called
    /\ reply = AnkiConnect("msg")
    /\ outcome = reply
    /\ Len(sent) = 1

\* C20: when sending the envelope fails, post_generic_request returns
\* RequestError carrying the failure's message; nothing is sanitized or
\* decoded and the call returns that error.
C20_TransportFailure ==
    (Called /\ net.send = "err")
        => /\ reply = RequestError(net.msg)
           /\ val = NoVal
           /\ outcome = reply
\* a timeout while sending
C20_Witness ==
    /\ Called
    /\ net.send = "err"
    /\ net.msg = "operation timed out"
    /\ reply = RequestError("operation timed out")
    /\ val = NoVal

\* C24: add_notes never aborts.  Whenever the response's result is null or
\* absent post_generic_request returns an error, so add_notes returns Ok of
\* a present id list or a typed error and never unwraps None.
C24_AddNotesNeverAborts ==
    (Called /\ op = "add_notes")
        => /\ outcome # Panic
           /\ (net.send = "ok" /\ net.body.t = "obj"
                  /\ Member(net.body.m, "result").t \in {"absent", "null"})
                 => reply.kind # "Ok"
           /\ outcome.kind = "Ok" => outcome.value.ty = "vec"

\* the members of an object other than `result`
NotResult(e) == e.k # "result"
Others(m) == SelectSeq(m, NotResult)
\* how many times x occurs in the sequence a
Count(a, x) == Cardinality({i \in 1..Len(a) : a[i] = x})

\* C27: sanitization changes nothing but the elements of a top-level result
\* array.  A response whose result is absent, null, a scalar or an object is
\* handed to decoding as received; error and every other member are as
\* received; an element that holds an empty object inside it (a record with
\* an empty `fields`, an array of an empty object) is retained as received.
C27_SanitizationFrame ==
    Decoding
        => /\ GetResult(net.body).t # "arr" => val = net.body
           /\ val.t = net.body.t
           /\ net.body.t = "obj"
                 => /\ Others(val.m) = Others(net.body.m)
                    /\ Member(val.m, "error") = Member(net.body.m, "error")
                    /\ Len(val.m) = Len(net.body.m)
                    /\ \A i \in 1..Len(val.m) : val.m[i].k = net.body.m[i].k
           /\ GetResult(net.body).t = "arr"
                 => \A x \in {InfoObj, NestedArr} :
                        Count(GetResult(val).a, x) = Count(GetResult(net.body).a, x)
\* an empty object removed between two elements that hold one inside, beside
\* an error string
C27_Witness ==
    /\ Decoding
    /\ net.body = Response(JArr(<<InfoObj, EmptyObj, NestedArr>>), JStr("msg"))
    /\ val = Response(JArr(<<InfoObj, NestedArr>>), JStr("msg"))

(***************************************************************************)
(* Further properties of build(), checked under SpecBuilder.               *)
(***************************************************************************)
\* the source Media::data reads for the item, none when it has neither
SourceOf(m) ==
    IF IsSome(m.url) THEN m.url ELSE IF IsSome(m.path) THEN m.path ELSE TNone
\* the item has no url and no path
NoUrlNoPath(m) == ~IsSome(SourceOf(m))
\* the item is resolved without I/O: no url and no path, or an inline source
NeedsNoIo(m) == IsSome(SourceOf(m)) => SourceOf(m).x.tag = "Data"
\* the items of a Note's list
NoteItems(o) == IF IsSome(o) THEN o.x ELSE <<>>
MediaFields == {"audios", "videos", "pictures"}
\* the items of list f once build() has returned: in the Note, or left in
\* the builder when it failed
ItemsAfter(f) == IF ret.kind = "Ok" THEN NoteItems(ret.value[f]) ELSE ItemsOf(nb[f])

\* C25: inline data needs no I/O.  An inline source resolves to exactly its
\* bytes; a build() whose Media items have no url and no path, or an inline
\* source, makes no GET and no file read, and leaves the data of every item
\* without url and path as staged.
C25_InlineNeedsNoIo ==
    Built
        => /\ AllOf(NeedsNoIo, StagedMedia(pre)) => io = <<>>
           /\ ViolatedFields(pre) = {} =>
                 \A f \in MediaFields :
                     \A i \in 1..Len(ItemsOf(pre[f])) :
                         /\ NoUrlNoPath(ItemsOf(pre[f])[i])
                               => ItemsAfter(f)[i] = ItemsOf(pre[f])[i]
                         /\ (ret.kind = "Ok" /\ IsSome(SourceOf(ItemsOf(pre[f])[i]))
                                /\ SourceOf(ItemsOf(pre[f])[i]).x.tag = "Data")
                               => ItemsAfter(f)[i].data
                                      = SourceOf(ItemsOf(pre[f])[i]).x.bytes
\* a Note built from an item with data and an item with an inline source
C25_Witness ==
    /\ Built
    /\ ret.kind = "Ok"
    /\ pre.audios = TSome(TSome(<<MediaInline>>))
    /\ pre.pictures = TSome(TSome(<<MediaCoerced>>))
    /\ ~IsSome(pre.videos)
    /\ io = <<>>
    /\ ret.value.audios = TSome(<<MediaInline>>)
    /\ ret.value.pictures
           = TSome(<<[MediaCoerced EXCEPT !.data = <<104, 101, 108, 108, 111>>]>>)

\* C26: validation precedes media resolution.  A build() that made a GET or
\* a file read had its three required fields present and non-empty; a
\* build() that returns the validation error made none.
C26_ValidationBeforeMedia ==
    Built
        => /\ io # <<>> => ViolatedFields(pre) = {}
           /\ ret.kind = "UninitializedField" => io = <<>>
\* the validation error with a URL item staged
C26_Witness ==
    /\ Built
    /\ ret = UninitializedField("model_name")
    /\ pre.audios = TSome(TSome(<<MediaFromUrl>>))
    /\ io = <<>>
    /\ ItemsOf(nb.audios) = <<MediaFromUrl>>

\* C28: media resolutions are independent.  Once build() has reached the
\* media, every item is the staged item with at most its data changed, and
\* it is either untouched or what Media::data makes of that item alone,
\* whatever stands beside it; in a Note every item is the latter.
C28_IndependentResolutions ==
    (Built /\ ViolatedFields(pre) = {})
        => \A f \in MediaFields :
               /\ Len(ItemsAfter(f)) = Len(ItemsOf(pre[f]))
               /\ \A i \in 1..Len(ItemsOf(pre[f])) :
                      /\ [ItemsAfter(f)[i] EXCEPT !.data = <<>>]
                             = [ItemsOf(pre[f])[i] EXCEPT !.data = <<>>]
                      /\ ItemsAfter(f)[i] \in
                             {ItemsOf(pre[f])[i], MediaData(ItemsOf(pre[f])[i]).media}
                      /\ ret.kind = "Ok"
                            => ItemsAfter(f)[i] = MediaData(ItemsOf(pre[f])[i]).media
\* a fetched item before an item with data of its own
C28_Witness ==
    /\ Built
    /\ ret.kind = "Ok"
    /\ pre.audios = TSome(TSome(<<MediaFromUrl, MediaInline>>))
    /\ ret.value.audios
           = TSome(<<[MediaFromUrl EXCEPT !.data = <<1, 2>>], MediaInline>>)

\* C29: state unchanged on build error.  When build() returns an error, for
\* a required field or for a Media item, the builder holds what it held
\* before the call.
C29_UnchangedOnBuildError ==
    (Built /\ ret.kind \notin {"Ok", "Panic"}) => nb = pre

(***************************************************************************)
(* Properties of the caches, checked under SpecCache.                      *)
(***************************************************************************)
\* the last call was a model refresh and it succeeded
ModelsRefreshed ==
    last.call \in {"hydrate", "update_all", "update"} /\ last.res.kind = "Ok"
\* the model listing the refreshed store now holds
HeldModels == IF last.call = "update" THEN legacy ELSE cache.models.cache
\* the model listing the store held before the call
HeldModelsBefore ==
    CASE last.call = "update"     -> last.before
      [] last.call = "update_all" -> last.before.models.cache
      [] OTHER                    -> last.before.cache

\* C21: replace-all-on-refresh.  After a successful ModelCache hydrate or
\* update (update_all included), whatever refreshes came before, the store
\* holds exactly the listing the service returned in that refresh.
C21_ReplaceAllOnRefresh ==
    ModelsRefreshed
        => /\ last.answer.kind = "Ok"
           /\ HeldModels = last.answer.value.es
\* a refresh whose listing lacks a name the store held
C21_Witness ==
    /\ ModelsRefreshed
    /\ last.call = "hydrate"
    /\ ContainsKey(HeldModelsBefore, "Cloze")
    /\ last.answer = ErrOk(TMap(<<Pair("Basic", 1)>>))
    /\ cache.models.cache = <<Pair("Basic", 1)>>

\* the last call was a hydrate_names and it succeeded
NamesHydrated == last.call = "hydrate_names" /\ last.res.kind = "Ok"
\* the value the listing m holds for key k
ValueOf(m, k) == m[CHOOSE i \in 1..Len(m) : m[i].k = k].v

\* C22: hydrate_names only adds.  After it succeeds every deck name the
\* service returned is a key of the store, every entry held before is still
\* there with the same value, and every other entry is a returned name that
\* maps to no config.
C22_HydrateNamesOnlyAdds ==
    NamesHydrated
        => /\ \A i \in 1..Len(last.answer.value.es) :
                  ContainsKey(decks.cache, last.answer.value.es[i].k)
           /\ \A i \in 1..Len(last.before.cache) :
                  /\ ContainsKey(decks.cache, last.before.cache[i].k)
                  /\ ValueOf(decks.cache, last.before.cache[i].k)
                         = last.before.cache[i].v
           /\ \A j \in 1..Len(decks.cache) :
                  ~ContainsKey(last.before.cache, decks.cache[j].k)
                      => /\ decks.cache[j].v = TNone
                         /\ ContainsKey(last.answer.value.es, decks.cache[j].k)
           /\ \A i, j \in 1..Len(decks.cache) :
                  decks.cache[i].k = decks.cache[j].k => i = j
\* a listing that lacks a held name and brings a new one
C22_Witness ==
    /\ NamesHydrated
    /\ last.before.cache = <<Pair("Default", TNone)>>
    /\ last.answer = ErrOk(TMap(<<Pair("Mining", 2)>>))
    /\ decks.cache = <<Pair("Default", TNone), Pair("Mining", TNone)>>

\* C23: rehydration restores the connection.  An update_all made on a Cache
\* that holds a connection, from Cache::init or from Cache::hydrate after a
\* serialization round trip, does not fail with CacheError::Dehydrated.
C23_RehydrationRestores ==
    (last.call = "update_all" /\ last.before.modules) => last.res # Dehydrated

\* the last call was a refresh of a ModelCache<String> or of a DeckCache and
\* it failed
RefreshFailed ==
    last.call \in {"hydrate", "hydrate_names"} /\ last.res.kind # "Ok"

\* C30: state unchanged on cache refresh error.  When hydrate or
\* hydrate_names fails, the store is as it was before the call; a store
\* without connection fails with Dehydrated, and that before any request.
C30_UnchangedOnRefreshError ==
    RefreshFailed
        => /\ last.after = last.before
           /\ last.call = "hydrate" => cache.models = last.before
           /\ last.call = "hydrate_names" => decks = last.before
           /\ last.res = Dehydrated <=> ~last.before.modules
           /\ last.res = Dehydrated => last.asked = 0
\* a remote failure on a store that held a listing
C30_Witness ==
    /\ RefreshFailed
    /\ last.call = "hydrate"
    /\ last.res = AnkiConnect("msg")
    /\ last.asked = 1
    /\ last.before.cache = <<Pair("Basic", 2), Pair("Cloze", 1)>>
    /\ cache.models.cache = <<Pair("Basic", 2), Pair("Cloze", 1)>>

====
